---- MODULE Spec2Model ----
(***************************************************************************)
(* Model of the Quasar Linux installer (src/installer.py): the command     *)
(* runner and logger, the installation pipeline driven by main(), the      *)
(* pipes of a subprocess run with progress reporting, and the first-login  *)
(* hook of the installed system.                                           *)
(*                                                                         *)
(* Text is modelled as a sequence of tokens: a command line, a log line    *)
(* and a command's output are sequences of strings, and an f-string is the *)
(* concatenation of its parts.                                             *)
(***************************************************************************)
EXTENDS Integers, Sequences, FiniteSets, TLC

VARIABLES
    pc,          \* position of the control thread
    log,         \* the lines of LOG_FILE, oldest first
    cmds,        \* the external commands issued so far, with their exit status
    exitStatus,  \* exit status of the installer process, Running while it runs
    ret,         \* what the last run_command call returned
    call,        \* arguments and subprocess behaviour of a direct run_command call
    ncalls,      \* number of direct run_command calls made
    euid,        \* effective uid of the process
    efi_exists,  \* whether /sys/firmware/efi exists on the host
    uefi_mode,   \* main's local uefi_mode
    disks,       \* main's local disks (result of get_disks)
    disk,        \* main's local disk (result of select_disk)
    choice,      \* select_disk's local disk_path
    confirm,     \* select_disk's local confirm (the answer to the HDD warning)
    retries,     \* number of times a prompt loop (select_disk, set_password)
                 \* went round again
    root_part,   \* main's local root_part
    boot_part,   \* main's local boot_part
    username,    \* main's local username
    fs,          \* filesystem held by each partition
    mounts,      \* successful mounts, in order
    typed,       \* the passwords the operator has typed at a getpass prompt
    entered,     \* set_password's locals <<password1, password2>>
    pkg_i,       \* loop index of install_packages
    asset_i,     \* loop index over the post-install scripts
    assets,      \* bundled assets copied into the target so far
    attempted,   \* bundled assets whose copy statement was reached
    script,      \* commands executed by /chroot_setup.sh, in order
    script_env,  \* what the secondary script found in the target root
    proc,        \* a subprocess started by Popen, its two pipes and the
                 \* reading loop of run_command
    hook         \* the interactive shells of the new user and the marker file

vars == <<pc, log, cmds, exitStatus, ret, call, ncalls, euid, efi_exists,
          uefi_mode, disks, disk, choice, confirm, retries, root_part,
          boot_part, username, fs, mounts, typed, entered, pkg_i, asset_i,
          assets, attempted, script, script_env, proc, hook>>

\* groups of variables that the actions leave alone together
restOfMain == <<call, ncalls, euid, efi_exists, uefi_mode, proc, hook>>
selection == <<disks, disk, choice, confirm, retries>>
selection_but_retries == <<disks, disk, choice, confirm>>
partitions == <<root_part, boot_part>>
laterStages == <<username, typed, entered, pkg_i, asset_i, assets, attempted,
                 script, script_env>>

---------------------------------------------------------------------------
(* Bounds of the model *)

MaxRc == 2             \* exit statuses of a subprocess range over 0..MaxRc
MaxCalls == 2          \* direct run_command calls made by the call harness
MaxRetries == 1        \* times the operator makes a prompt loop go round again
PipeCapacity == 2      \* lines a pipe holds before a write to it blocks
MaxOutput == 3         \* lines a subprocess writes before it exits
MaxShells == 3         \* interactive shells the new user has open at a time

Running == -1
Unset == <<>>
NoResult == [isNone |-> TRUE, text |-> <<>>]

---------------------------------------------------------------------------
(* Text helpers *)

WhiteSpace == {" ", "\n"}

\* str.strip(): drop leading and trailing whitespace
RECURSIVE LStrip(_)
LStrip(s) == IF s # <<>> /\ Head(s) \in WhiteSpace THEN LStrip(Tail(s)) ELSE s

RECURSIVE RStrip(_)
RStrip(s) == IF s # <<>> /\ s[Len(s)] \in WhiteSpace
             THEN RStrip(SubSeq(s, 1, Len(s) - 1)) ELSE s

Strip(s) == RStrip(LStrip(s))

\* str(int) for the small numbers of the model
IntStr(n) == IF n \in 0..9
             THEN <<"0", "1", "2", "3", "4", "5", "6", "7", "8", "9">>[n + 1]
             ELSE "many"

\* str(bool), as an f-string formats a bool
BoolStr(b) == IF b THEN "True" ELSE "False"

\* sub occurs in line as a contiguous run of tokens
Contains(line, sub) ==
    \E i \in 0..(Len(line) - Len(sub)) : SubSeq(line, i + 1, i + Len(sub)) = sub

LogContains(lg, sub) == \E i \in 1..Len(lg) : Contains(lg[i], sub)

---------------------------------------------------------------------------
(* Logger *)

TimeStamp == "[ts]"
OutputLogLimit == 500

log_init == << <<"Quasar Linux Installer Log">>, <<"Started at:">>,
               <<"Python version:">>, <<"System:">>, <<"----">> >>

log_message(lg, message) == Append(lg, <<TimeStamp>> \o message)

log_command(lg, cmd, output, error) ==
    LET l1 == log_message(lg, <<"COMMAND:">> \o cmd)
        l2 == IF output # <<>>
              THEN log_message(l1, <<"OUTPUT:">> \o
                       SubSeq(output, 1, IF Len(output) < OutputLogLimit
                                         THEN Len(output) ELSE OutputLogLimit))
              ELSE l1
    IN  IF error # <<>> THEN log_message(l2, <<"ERROR:">> \o error) ELSE l2

HeaderLine == <<"Displayed main header">>

print_header(lg) == log_message(lg, HeaderLine)

---------------------------------------------------------------------------
(* Command runner *)

\* run_command(), lines 221-222: the first two log lines of the except clause
FailureLines(lg, cmd, e) ==
    log_message(log_message(lg, <<"Command failed:">> \o cmd),
                <<"Error code:", IntStr(e.returncode)>>)

\* Variant: exit_on_error is not honoured, the handler always returns None.
ExceptHandler_noexit(lg, cmd, exit_on_error, e) ==
    [log |-> FailureLines(lg, cmd, e), outcome |-> "return", status |-> 0,
     value |-> NoResult]

\* Variant: the handler leaves with the status of the failed command.
ExceptHandler_propagate(lg, cmd, exit_on_error, e) ==
    LET l2 == FailureLines(lg, cmd, e)
    IN  IF e.stderr.isNone
        THEN [log |-> l2, outcome |-> "raise", status |-> 1, value |-> NoResult]
        ELSE [log |-> log_message(l2, <<"Error message:">> \o Strip(e.stderr.text)),
              outcome |-> IF exit_on_error THEN "exit" ELSE "return",
              status |-> IF exit_on_error THEN e.returncode ELSE 0,
              value |-> NoResult]

\* Variant: the handler does not log the exit code.
ExceptHandler_nocode(lg, cmd, exit_on_error, e) ==
    LET l1 == log_message(lg, <<"Command failed:">> \o cmd)
    IN  IF e.stderr.isNone
        THEN [log |-> l1, outcome |-> "raise", status |-> 1, value |-> NoResult]
        ELSE [log |-> log_message(l1, <<"Error message:">> \o Strip(e.stderr.text)),
              outcome |-> IF exit_on_error THEN "exit" ELSE "return",
              status |-> IF exit_on_error THEN 1 ELSE 0,
              value |-> NoResult]

\* The except clause of run_command.  e is the CalledProcessError: the one
\* subprocess.run raises carries the captured stderr, the one the progress
\* branch raises carries none, and None has no strip().
ExceptHandler(lg, cmd, exit_on_error, e) ==
    LET l2 == FailureLines(lg, cmd, e)
    IN  IF e.stderr.isNone
        THEN [log |-> l2, outcome |-> "raise", status |-> 1, value |-> NoResult]
        ELSE LET l3 == log_message(l2, <<"Error message:">> \o Strip(e.stderr.text))
             IN  IF exit_on_error
                 THEN [log |-> l3, outcome |-> "exit", status |-> 1,
                       value |-> NoResult]
                 ELSE [log |-> l3, outcome |-> "return", status |-> 0,
                       value |-> NoResult]

\* run_command(cmd, exit_on_error, show_progress) when the subprocess ends
\* with res = [rc, out, err].  outcome is "return" (value is the result),
\* "exit" (sys.exit(status)) or "raise" (an exception leaves the function).
run_command(lg, cmd, exit_on_error, show_progress, res) ==
    LET l1 == log_message(lg, <<"Executing:">> \o cmd)
    IN  IF show_progress
        THEN LET l2 == IF res.err # <<>>
                       THEN log_message(l1, <<"Command error:">> \o res.err)
                       ELSE l1
             IN  IF res.rc # 0
                 THEN ExceptHandler(l2, cmd, exit_on_error,
                          [returncode |-> res.rc, stderr |-> NoResult])
                 ELSE [log |-> l2, outcome |-> "return", status |-> 0,
                       value |-> [isNone |-> FALSE, text |-> <<>>]]
        ELSE IF res.rc # 0
             THEN ExceptHandler(l1, cmd, exit_on_error,
                      [returncode |-> res.rc,
                       stderr |-> [isNone |-> FALSE, text |-> res.err]])
             ELSE [log |-> log_command(l1, cmd, res.out, res.err),
                   outcome |-> "return", status |-> 0,
                   value |-> [isNone |-> FALSE, text |-> Strip(res.out)]]

\* How a subprocess can end in the pipeline: success without output, or a
\* failure with any non-zero status and an error text.
Results == {[rc |-> 0, out |-> <<>>, err |-> <<>>]} \cup
           {[rc |-> c, out |-> <<>>, err |-> <<"failed">>] : c \in 1..MaxRc}

\* The record kept of an issued command: the call site, the command line and
\* the exit status.
Issued(site, cmd, rc) == [site |-> site, cmd |-> cmd, rc |-> rc]

\* Variant: the caller goes on whatever the outcome of the call.
Finish_goon(r, nextpc) ==
    /\ log' = r.log
    /\ ret' = r.value
    /\ pc' = nextpc /\ exitStatus' = exitStatus

\* Effect of a run_command outcome r on the control thread: a return goes on
\* to nextpc, sys.exit ends the process with its status, and an exception that
\* nothing catches ends it with status 1.
Finish(r, nextpc) ==
    /\ log' = r.log
    /\ ret' = r.value
    /\ IF r.outcome = "return"
       THEN pc' = nextpc /\ exitStatus' = exitStatus
       ELSE pc' = "exited" /\ exitStatus' = r.status

---------------------------------------------------------------------------
(* Direct calls of run_command, for every combination of its flags *)

\* The partitions of the machine (the operator may name any as root or boot).
Partitions == {<<"/dev/sda1">>, <<"/dev/sda2">>}

CallCmds == {<<"true">>, <<"false">>}
CallOuts == {<<>>, <<"line", "\n">>}
CallErrs == {<<>>, <<"boom">>, <<" ", "boom", "\n">>}

CallInputs == [cmd : CallCmds, exit_on_error : BOOLEAN, show_progress : BOOLEAN,
               res : [rc : 0..MaxRc, out : CallOuts, err : CallErrs]]

NoCall == [cmd |-> <<>>, exit_on_error |-> TRUE, show_progress |-> FALSE,
           res |-> [rc |-> 0, out |-> <<>>, err |-> <<>>]]

\* What the secondary script finds in the target root.
ScriptEnvs == [grub_rc : {0, 1}, efi_binary : BOOLEAN, grub_cfg : BOOLEAN,
               hook_rc : {0, 1}]

NoScriptEnv == [grub_rc |-> 0, efi_binary |-> FALSE, grub_cfg |-> FALSE,
                hook_rc |-> 0]

\* No subprocess has been started with Popen, no shell has been opened.
NoProc == [todo |-> <<>>, stdout |-> 0, stderr |-> 0, child |-> "none",
           rc |-> 0, read_out |-> 0, read_err |-> 0]
NoHook == [shell |-> <<>>, marker |-> FALSE, runs |-> 0]

\* The locals of main() before any of them is assigned.
pipelineIdle ==
    /\ uefi_mode = FALSE
    /\ disks = <<>> /\ disk = Unset /\ choice = Unset /\ confirm = Unset
    /\ retries = 0
    /\ root_part = Unset /\ boot_part = Unset /\ username = Unset
    /\ fs = [p \in Partitions |-> "none"]
    /\ mounts = <<>> /\ typed = {} /\ entered = Unset /\ pkg_i = 0
    /\ asset_i = 1 /\ assets = {} /\ attempted = {} /\ script = <<>>
    /\ script_env = NoScriptEnv

pipelineVars == <<euid, efi_exists, uefi_mode, disks, disk, choice, confirm,
                  retries, root_part, boot_part, username, fs, mounts, typed,
                  entered, pkg_i, asset_i, assets, attempted, script,
                  script_env>>

InitRC ==
    /\ euid = 0
    /\ efi_exists = FALSE
    /\ pc = "rc_call"
    /\ log = log_init
    /\ cmds = <<>>
    /\ exitStatus = Running
    /\ ret = NoResult
    /\ call \in CallInputs
    /\ ncalls = 0
    /\ pipelineIdle
    /\ proc = NoProc
    /\ hook = NoHook

\* The caller invokes run_command(call.cmd, call.exit_on_error,
\* call.show_progress) and the subprocess ends as call.res says.
RunCommandCall ==
    /\ pc = "rc_call"
    /\ LET r == run_command(log, call.cmd, call.exit_on_error,
                            call.show_progress, call.res)
       IN  Finish(r, "rc_returned")
    /\ cmds' = Append(cmds, Issued("direct", call.cmd, call.res.rc))
    /\ ncalls' = ncalls + 1
    /\ UNCHANGED <<call, pipelineVars, proc, hook>>

\* run_command returned to its caller, which goes on to its next call.
CallerContinues ==
    /\ pc = "rc_returned"
    /\ ncalls < MaxCalls
    /\ call' \in CallInputs
    /\ pc' = "rc_call"
    /\ UNCHANGED <<log, cmds, exitStatus, ret, ncalls, pipelineVars, proc, hook>>

NextRC == RunCommandCall \/ CallerContinues

SpecRC == InitRC /\ [][NextRC]_vars

---------------------------------------------------------------------------
(* The progress branch of run_command, lines 179-208, step by step: the   *)
(* subprocess writes to two pipes of bounded capacity while run_command   *)
(* reads them.  proc.todo is what the subprocess has still to write, in   *)
(* order; proc.stdout and proc.stderr count the lines held by each pipe.  *)

\* The outputs of a subprocess: every interleaving of stdout and stderr lines
RECURSIVE Interleavings(_)
Interleavings(n) ==
    IF n = 0 THEN {<<>>}
    ELSE LET shorter == Interleavings(n - 1)
         IN  shorter \cup {Append(t, s) : t \in shorter, s \in {"out", "err"}}

\* n lines of text
RECURSIVE Lines(_, _)
Lines(n, line) == IF n = 0 THEN <<>> ELSE <<line>> \o Lines(n - 1, line)

InitPipe ==
    /\ euid = 0
    /\ efi_exists = FALSE
    /\ pc = "popen"
    /\ log = log_init
    /\ cmds = <<>>
    /\ exitStatus = Running
    /\ ret = NoResult
    /\ call = NoCall
    /\ ncalls = 0
    /\ pipelineIdle
    /\ proc = NoProc
    /\ hook = NoHook

\* run_command(), lines 182-188: Popen starts the subprocess with a pipe for
\* its stdout and one for its stderr
Popen ==
    /\ pc = "popen"
    /\ \E cmd \in CallCmds, exit_on_error \in BOOLEAN, rc \in {0, 1},
          todo \in Interleavings(MaxOutput) :
          /\ call' = [cmd |-> cmd, exit_on_error |-> exit_on_error,
                      show_progress |-> TRUE,
                      res |-> [rc |-> rc, out |-> <<>>, err |-> <<>>]]
          /\ proc' = [NoProc EXCEPT !.todo = todo, !.child = "running",
                                    !.rc = rc]
    /\ pc' = "readline"
    /\ UNCHANGED <<log, cmds, exitStatus, ret, ncalls, pipelineVars, hook>>

\* The subprocess writes its next line; the write blocks while the pipe it
\* goes to is full.
ChildWrites ==
    /\ proc.child = "running"
    /\ proc.todo # <<>>
    /\ IF Head(proc.todo) = "out"
       THEN /\ proc.stdout < PipeCapacity
            /\ proc' = [proc EXCEPT !.todo = Tail(@), !.stdout = @ + 1]
       ELSE /\ proc.stderr < PipeCapacity
            /\ proc' = [proc EXCEPT !.todo = Tail(@), !.stderr = @ + 1]
    /\ UNCHANGED <<pc, log, cmds, exitStatus, ret, call, ncalls, pipelineVars,
                   hook>>

\* The subprocess has written everything and exits, which closes its ends
\* of both pipes.
ChildExits ==
    /\ proc.child = "running"
    /\ proc.todo = <<>>
    /\ proc' = [proc EXCEPT !.child = "exited"]
    /\ UNCHANGED <<pc, log, cmds, exitStatus, ret, call, ncalls, pipelineVars,
                   hook>>

\* run_command(), lines 191-196: one round of the loop.  readline returns a
\* line when the stdout pipe holds one, returns '' at end of file (the
\* subprocess has exited, so poll() is not None and the loop ends), and
\* blocks otherwise.
ReadLine ==
    /\ pc = "readline"
    /\ IF proc.stdout > 0
       THEN /\ proc' = [proc EXCEPT !.stdout = @ - 1, !.read_out = @ + 1]
            /\ UNCHANGED pc
       ELSE /\ proc.child = "exited"
            /\ pc' = "read_stderr"
            /\ UNCHANGED proc
    /\ UNCHANGED <<log, cmds, exitStatus, ret, call, ncalls, pipelineVars, hook>>

\* run_command(), line 199: stderr.read() returns at end of file with
\* everything the pipe held.
ReadStderr ==
    /\ pc = "read_stderr"
    /\ proc.child = "exited"
    /\ proc' = [proc EXCEPT !.stderr = 0, !.read_err = @ + proc.stderr]
    /\ pc' = "poll"
    /\ UNCHANGED <<log, cmds, exitStatus, ret, call, ncalls, pipelineVars, hook>>

\* run_command(), lines 200-208 and the except clause: what was read from
\* stderr is logged and the exit status decides how the call ends.
PollAndFinish ==
    /\ pc = "poll"
    /\ LET res == [rc |-> proc.rc, out |-> Lines(proc.read_out, "line"),
                   err |-> Lines(proc.read_err, "boom")]
       IN  /\ Finish(run_command(log, call.cmd, call.exit_on_error, TRUE, res),
                     "rc_returned")
           /\ cmds' = Append(cmds, Issued("direct", call.cmd, proc.rc))
           /\ call' = [call EXCEPT !.res = res]
    /\ ncalls' = ncalls + 1
    /\ UNCHANGED <<pipelineVars, proc, hook>>

NextPipe ==
    Popen \/ ChildWrites \/ ChildExits \/ ReadLine \/ ReadStderr \/ PollAndFinish

SpecPipe == InitPipe /\ [][NextPipe]_vars

---------------------------------------------------------------------------
(* The first-login hook that setup_chroot appends to the new user's       *)
(* .bashrc, lines 585-592, as the interactive shells of that user run it: *)
(*     if [ ! -f ~/.Quasar_post_done ]; then                              *)
(*         ./INST.sh                                                      *)
(*         touch ~/.Quasar_post_done                                      *)
(*     fi                                                                 *)
(* hook.shell[i] is where shell i stands, hook.marker whether the marker  *)
(* file exists, hook.runs how many times INST.sh has been started.        *)

Shells == 1..MaxShells

\* The installed system has booted: no shell is open, no marker file.
InitHook ==
    /\ euid = 0
    /\ efi_exists = FALSE
    /\ pc = "installed"
    /\ log = log_init
    /\ cmds = <<>>
    /\ exitStatus = 0
    /\ ret = NoResult
    /\ call = NoCall
    /\ ncalls = 0
    /\ pipelineIdle
    /\ proc = NoProc
    /\ hook = [NoHook EXCEPT !.shell = [i \in Shells |-> "closed"]]

hookFrame == <<pc, log, cmds, exitStatus, ret, call, ncalls, pipelineVars, proc>>

\* The user opens an interactive shell, which starts reading .bashrc
OpenShell(i) ==
    /\ hook.shell[i] = "closed"
    /\ hook' = [hook EXCEPT !.shell[i] = "test"]
    /\ UNCHANGED hookFrame

\* line 588: [ ! -f ~/.Quasar_post_done ]
TestMarker(i) ==
    /\ hook.shell[i] = "test"
    /\ hook' = [hook EXCEPT !.shell[i] = IF hook.marker THEN "prompt" ELSE "run"]
    /\ UNCHANGED hookFrame

\* line 589: ./INST.sh
RunScript(i) ==
    /\ hook.shell[i] = "run"
    /\ hook' = [hook EXCEPT !.shell[i] = "touch", !.runs = @ + 1]
    /\ UNCHANGED hookFrame

\* line 590: touch ~/.Quasar_post_done
TouchMarker(i) ==
    /\ hook.shell[i] = "touch"
    /\ hook' = [hook EXCEPT !.shell[i] = "prompt", !.marker = TRUE]
    /\ UNCHANGED hookFrame

\* The user leaves the shell (and may open another one later).
CloseShell(i) ==
    /\ hook.shell[i] = "prompt"
    /\ hook' = [hook EXCEPT !.shell[i] = "closed"]
    /\ UNCHANGED hookFrame

NextHook ==
    \E i \in Shells :
        \/ OpenShell(i)
        \/ TestMarker(i)
        \/ RunScript(i)
        \/ TouchMarker(i)
        \/ CloseShell(i)

SpecHook == InitHook /\ [][NextHook]_vars

---------------------------------------------------------------------------
(* The installation pipeline: main() and the stages it calls *)

\* One subprocess run by run_command(cmd) with the default flags
\* (exit_on_error=True, show_progress=False), issued at call site `site`.
\* then is the message the caller logs once the call has returned (none when
\* empty).
RunHere(site, lg, cmd, res, nextpc, then) ==
    /\ LET r == run_command(lg, cmd, TRUE, FALSE, res)
       IN  Finish([r EXCEPT !.log = IF r.outcome = "return" /\ then # <<>>
                                    THEN log_message(r.log, then) ELSE r.log],
                  nextpc)
    /\ cmds' = Append(cmds, Issued(site, cmd, res.rc))

Nothing == <<>>

Init ==
    /\ pc = "main"
    /\ log = <<>>
    /\ cmds = <<>>
    /\ exitStatus = Running
    /\ ret = NoResult
    /\ call = NoCall
    /\ ncalls = 0
    /\ euid \in {0, 1000}
    /\ efi_exists \in BOOLEAN
    /\ pipelineIdle
    /\ proc = NoProc
    /\ hook = NoHook

\* Variant: main does not check the effective uid.
Start_unchecked ==
    /\ pc = "main"
    /\ uefi_mode' = efi_exists
    /\ log' = log_message(
                  log_message(log_init,
                      <<"Installer started with root privileges">>),
                  <<"Boot mode detected:",
                    IF efi_exists THEN "UEFI" ELSE "BIOS">>)
    /\ pc' = "font"
    /\ UNCHANGED <<cmds, exitStatus, ret, call, ncalls, euid, efi_exists, proc,
                   hook, selection, partitions, fs, mounts, laterStages>>

\* main(), lines 604-619: log_init, the privilege check, boot mode detection.
Start ==
    /\ pc = "main"
    /\ IF euid # 0
       THEN /\ log' = log_message(log_init,
                          <<"Script started without root privileges!">>)
            /\ pc' = "exited"
            /\ exitStatus' = 1
            /\ UNCHANGED uefi_mode
       ELSE /\ uefi_mode' = efi_exists
            /\ log' = log_message(
                          log_message(log_init,
                              <<"Installer started with root privileges">>),
                          <<"Boot mode detected:",
                            IF efi_exists THEN "UEFI" ELSE "BIOS">>)
            /\ pc' = "font"
            /\ UNCHANGED exitStatus
    /\ UNCHANGED <<cmds, ret, call, ncalls, euid, efi_exists, proc, hook,
                   selection, partitions, fs, mounts, laterStages>>


\* main(), line 622
InstallFont ==
    /\ pc = "font"
    /\ \E res \in Results :
          RunHere("font", log, <<"pacman", "-Sy", "terminus-font", "--noconfirm">>,
                  res, "setfont", Nothing)
    /\ UNCHANGED <<restOfMain, selection, partitions, fs, mounts, laterStages>>

\* main(), lines 623-631: setfont, then the boot mode screen and its Enter
SetFont ==
    /\ pc = "setfont"
    /\ \E res \in Results :
          RunHere("setfont", log, <<"setfont", "ter-v20n">>, res, "get_disks",
                  HeaderLine)
    /\ UNCHANGED <<restOfMain, selection, partitions, fs, mounts, laterStages>>

\* What lsblk prints on the machine of the model: two disks and a line that
\* is too short to be a disk.
LsblkOutput == <<"sda", "20G", "QEMU", "HARDDISK", "disk", "\n",
                 "sdb", "1T", "disk", "\n",
                 "sr0", "rom", "\n">>

\* str.split('\n')
RECURSIVE SplitLines(_, _)
SplitLines(s, cur) ==
    IF s = <<>> THEN <<cur>>
    ELSE IF Head(s) = "\n" THEN <<cur>> \o SplitLines(Tail(s), <<>>)
    ELSE SplitLines(Tail(s), Append(cur, Head(s)))

\* the loop of get_disks over the lines of the output
RECURSIVE ParseDisks(_)
ParseDisks(lines) ==
    IF lines = <<>> THEN <<>>
    ELSE LET parts == Head(lines)
         IN  (IF parts # <<>> /\ Len(parts) >= 3
              THEN << [name |-> parts[1], size |-> parts[2],
                       model |-> SubSeq(parts, 3, Len(parts) - 1),
                       type |-> parts[Len(parts)]] >>
              ELSE <<>>) \o ParseDisks(Tail(lines))

\* get_disks(), lines 259-274, called at main() line 634
GetDisks ==
    /\ pc = "get_disks"
    /\ \E res \in (Results \ {[rc |-> 0, out |-> <<>>, err |-> <<>>]})
                  \cup {[rc |-> 0, out |-> LsblkOutput, err |-> <<>>]} :
          LET cmd == <<"lsblk", "-d", "-o", "NAME,SIZE,MODEL,TYPE", "-n">>
              r == run_command(log, cmd, TRUE, FALSE, res)
          IN  /\ Finish(r, "select")
              /\ cmds' = Append(cmds, Issued("lsblk", cmd, res.rc))
              /\ disks' = IF r.outcome = "return"
                          THEN ParseDisks(SplitLines(r.value.text, <<>>))
                          ELSE disks
    /\ UNCHANGED <<restOfMain, disk, choice, confirm, retries, root_part,
                   boot_part, fs, mounts, laterStages>>

\* The names the operator may type at the disk prompt, the entries of /dev
\* and the rotational flag of /sys/block/<name>/queue/rotational.
DiskNames == {"sda", "sdb", "sda1", "", "nope"}
DevEntries == {"sda", "sdb", "sda1", "sda2", ""}
Rotational == [n \in {"sda", "sdb"} |-> IF n = "sdb" THEN 1 ELSE 0]

\* check_disk_type(), lines 245-257; path is <<"/dev/", name>>
check_disk_type(path) ==
    LET disk_name == path[Len(path)]
    IN  IF disk_name \in DOMAIN Rotational
        THEN IF Rotational[disk_name] = 1
             THEN <<"HDD", "(mechanical)">>
             ELSE <<"SSD", "(solid-state)">>
        ELSE <<"Unknown">>

\* str.lower() of the answers of the model
Lower(a) == IF a = "Y" THEN "y" ELSE IF a = "N" THEN "n" ELSE a

\* select_disk(), line 286: os.path.exists(disk_path)
PathExists_always(path) == TRUE
PathExists(path) == path[Len(path)] \in DevEntries

\* select_disk(), line 305: an answer other than 'y' goes back to the list
Declined_never(answer) == FALSE
Declined(answer) == answer # "y"

\* select_disk(), lines 278-289 and 306-310: the disk prompt
SelectDisk ==
    /\ pc = "select"
    /\ \E name \in DiskNames :
          LET disk_path == <<"/dev/", name>>
              l1 == print_header(log)
          IN  /\ choice' = disk_path
              /\ IF PathExists(disk_path)
                 THEN LET disk_type == check_disk_type(disk_path)
                          l2 == log_message(l1, <<"Selected disk:">>
                                    \o disk_path \o <<"(">> \o disk_type
                                    \o <<")">>)
                      IN  IF Contains(disk_type, <<"HDD">>)
                          THEN /\ log' = print_header(l2)
                               /\ pc' = "confirm"
                               /\ UNCHANGED <<disk, retries>>
                          ELSE /\ log' = l2
                               /\ disk' = disk_path
                               /\ pc' = "cfdisk"
                               /\ UNCHANGED retries
                 ELSE /\ retries < MaxRetries
                      /\ log' = log_message(l1, <<"Invalid disk selected:">>
                                                 \o disk_path)
                      /\ retries' = retries + 1
                      /\ UNCHANGED <<pc, disk>>
    /\ UNCHANGED <<cmds, exitStatus, ret, restOfMain, disks, confirm,
                   partitions, fs, mounts, laterStages>>

\* What the operator may answer to the HDD warning
Answers == {"y", "Y", "n", ""}

\* select_disk(), lines 303-306: the answer to the HDD warning
ConfirmHDD ==
    /\ pc = "confirm"
    /\ \E answer \in Answers :
          /\ confirm' = Lower(answer)
          /\ IF Declined(Lower(answer))
             THEN /\ retries < MaxRetries
                  /\ retries' = retries + 1
                  /\ pc' = "select"
                  /\ UNCHANGED disk
             ELSE /\ disk' = choice
                  /\ pc' = "cfdisk"
                  /\ UNCHANGED retries
    /\ UNCHANGED <<log, cmds, exitStatus, ret, restOfMain, disks, choice,
                   partitions, fs, mounts, laterStages>>

\* partition_disk(), lines 314-330: os.system runs cfdisk and its exit
\* status is dropped.  select_disk has returned: its locals are gone.
RunCfdisk ==
    /\ pc = "cfdisk"
    /\ \E rc \in {0, MaxRc} :
          cmds' = Append(cmds, Issued("cfdisk", <<"cfdisk">> \o disk, rc))
    /\ log' = log_message(print_header(log), <<"Partitioned disk:">> \o disk)
    /\ pc' = "show_partitions"
    /\ choice' = Unset
    /\ confirm' = Unset
    /\ UNCHANGED <<exitStatus, ret, restOfMain, disks, disk, retries,
                   partitions, fs, mounts, laterStages>>

\* What fdisk -l | grep '^/' ends with: the partition lines, or a failure.
FdiskResults == (Results \ {[rc |-> 0, out |-> <<>>, err |-> <<>>]})
                \cup {[rc |-> 0, out |-> <<"/dev/sda1", "\n", "/dev/sda2", "\n">>,
                       err |-> <<>>]}

FdiskCmd(d) == <<"fdisk", "-l">> \o d \o <<"|", "grep", "'^/'">>

\* partition_disk(), lines 332-339
ShowPartitions ==
    /\ pc = "show_partitions"
    /\ \E res \in FdiskResults :
          LET cmd == FdiskCmd(disk)
              r == run_command(print_header(log), cmd, TRUE, FALSE, res)
          IN  /\ Finish([r EXCEPT !.log =
                            IF r.outcome = "return"
                            THEN log_message(r.log, <<"Partition info:", "\n">>
                                                    \o r.value.text)
                            ELSE r.log], "list_partitions")
              /\ cmds' = Append(cmds, Issued("fdisk", cmd, res.rc))
    /\ UNCHANGED <<restOfMain, selection, partitions, fs, mounts, laterStages>>

\* main(), lines 640-645
ListPartitions ==
    /\ pc = "list_partitions"
    /\ \E res \in FdiskResults :
          LET cmd == FdiskCmd(disk)
              r == run_command(print_header(log), cmd, TRUE, FALSE, res)
          IN  /\ Finish([r EXCEPT !.log =
                            IF r.outcome = "return"
                            THEN log_message(r.log, <<"Partition info:", "\n">>
                                                    \o r.value.text)
                            ELSE r.log], "choose_partitions")
              /\ cmds' = Append(cmds, Issued("fdisk_main", cmd, res.rc))
    /\ UNCHANGED <<restOfMain, selection, partitions, fs, mounts, laterStages>>

\* What the operator types as the root and as the boot partition: the two
\* may be the same partition.
RootChoices == Partitions
BootChoices == {<<"/dev/sda1">>}

\* main(), lines 648-650
ChoosePartitions ==
    /\ pc = "choose_partitions"
    /\ \E r \in RootChoices, b \in BootChoices :
          /\ root_part' = r
          /\ boot_part' = b
          /\ log' = log_message(log, <<"Selected partitions:", "ROOT=">> \o r
                                     \o <<",", "BOOT/EFI=">> \o b)
    /\ pc' = "format_boot"
    /\ UNCHANGED <<cmds, exitStatus, ret, restOfMain, selection, fs, mounts, laterStages>>

\* What mkfs leaves on a partition when it succeeds: the filesystem that
\* the command line names, on the device it names.
MkfsEffect(f, cmd) ==
    LET dev == SubSeq(cmd, 3, Len(cmd))
        kind == IF cmd[1] = "mkfs.fat" THEN "fat32" ELSE "ext4"
    IN  IF dev \in DOMAIN f THEN [f EXCEPT ![dev] = kind] ELSE f

\* Variant: the boot partition is always formatted ext4.
BootFormatCmd_ext4(uefi, boot) == <<"mkfs.ext4", "-F">> \o boot

\* format_partitions(), lines 355-358
BootFormatCmd(uefi, boot) ==
    IF uefi THEN <<"mkfs.fat", "-F32">> \o boot
            ELSE <<"mkfs.ext4", "-F">> \o boot

\* format_partitions(), line 360
RootFormatCmd(root) == <<"mkfs.ext4", "-F">> \o root

\* format_partitions(), lines 343-358: the boot partition
FormatBoot ==
    /\ pc = "format_boot"
    /\ \E res \in Results :
          LET cmd == BootFormatCmd(uefi_mode, boot_part)
          IN  /\ RunHere("format_boot", print_header(log), cmd, res,
                         "format_root", Nothing)
              /\ fs' = IF res.rc = 0 THEN MkfsEffect(fs, cmd) ELSE fs
    /\ UNCHANGED <<restOfMain, selection, partitions, mounts, laterStages>>

\* format_partitions(), lines 360-364: the root partition
FormatDone == <<"Partitions formatted successfully">>

FormatRoot ==
    /\ pc = "format_root"
    /\ \E res \in Results :
          LET cmd == RootFormatCmd(root_part)
          IN  /\ RunHere("format_root", log, cmd, res, "mount_root", FormatDone)
              /\ fs' = IF res.rc = 0 THEN MkfsEffect(fs, cmd) ELSE fs
    /\ UNCHANGED <<restOfMain, selection, partitions, mounts, laterStages>>

TargetRoot == "/mnt"

\* Variant: the boot partition is always mounted at /mnt/boot.
BootMountPath_boot(uefi) == "/mnt/boot"

\* mount_partitions(), lines 381-386: where the boot partition is mounted
BootMountPath(uefi) == IF uefi THEN "/mnt/boot/efi" ELSE "/mnt/boot"

\* mount_partitions(), lines 368-379: the root partition
MountRoot ==
    /\ pc = "mount_root"
    /\ \E res \in Results :
          LET cmd == <<"mount">> \o root_part \o <<TargetRoot>>
          IN  /\ RunHere("mount_root", print_header(log), cmd, res,
                         "mount_boot", Nothing)
              /\ mounts' = IF res.rc = 0
                           THEN Append(mounts, [dev |-> root_part,
                                                path |-> TargetRoot])
                           ELSE mounts
    /\ UNCHANGED <<restOfMain, selection, partitions, fs, laterStages>>

MountDone == <<"Partitions mounted successfully">>

\* mount_partitions(), lines 381-390: os.makedirs, whose OSError nothing
\* catches, then the boot partition
MountBoot ==
    /\ pc = "mount_boot"
    /\ \E made \in BOOLEAN :
          IF ~made
          THEN /\ pc' = "exited"
               /\ exitStatus' = 1
               /\ UNCHANGED <<log, cmds, ret, mounts>>
          ELSE \E res \in Results :
                  LET path == BootMountPath(uefi_mode)
                      cmd == <<"mount">> \o boot_part \o <<path>>
                  IN  /\ RunHere("mount_boot", log, cmd, res, "username",
                                 MountDone)
                      /\ mounts' = IF res.rc = 0
                                   THEN Append(mounts, [dev |-> boot_part,
                                                        path |-> path])
                                   ELSE mounts
    /\ UNCHANGED <<restOfMain, selection, partitions, fs, laterStages>>

Usernames == {<<"alice">>}

\* main(), lines 659-661
EnterUsername ==
    /\ pc = "username"
    /\ \E u \in Usernames :
          /\ username' = u
          /\ log' = log_message(print_header(log), <<"Creating user:">> \o u)
    /\ pc' = "packages"
    /\ UNCHANGED <<cmds, exitStatus, ret, restOfMain, selection, partitions,
                   fs, mounts, typed, entered, pkg_i, asset_i, assets,
                   attempted, script, script_env>>

\* install_base_system(), lines 442-447
Packages == <<"base", "base-devel", "runit", "dbus-runit", "elogind-runit",
              "dhcpcd", "linux-zen", "plasma-nm", "linux-zen-headers", "dkms",
              "dbus", "sudo", "grub", "os-prober", "efibootmgr",
              "networkmanager-runit", "fish", "mc", "htop", "wget", "curl",
              "git", "iwd", "terminus-font">>

\* install_packages(), line 240
PackageCmd(pkg) == <<"pacman", "-S", "--noconfirm", pkg>>

\* The root directory a package command installs into: the one named with
\* --root (or -r), the first argument of basestrap, and the root of the
\* system the command runs on ("/") otherwise.
InstallRoot(cmd) ==
    IF Head(cmd) = "basestrap" /\ Len(cmd) > 1
    THEN cmd[2]
    ELSE IF \E i \in 1..(Len(cmd) - 1) : cmd[i] \in {"--root", "-r"}
         THEN cmd[(CHOOSE i \in 1..(Len(cmd) - 1) : cmd[i] \in {"--root", "-r"}) + 1]
         ELSE "/"

\* install_base_system() line 429 before the first package, then one round
\* of the loop of install_packages(), lines 238-241
InstallPackage ==
    /\ pc = "packages"
    /\ pkg_i < Len(Packages)
    /\ \E res \in Results :
          RunHere("package", IF pkg_i = 0 THEN print_header(log) ELSE log,
                  PackageCmd(Packages[pkg_i + 1]), res,
                  IF pkg_i + 1 = Len(Packages) THEN "fstab" ELSE "packages",
                  Nothing)
    /\ pkg_i' = pkg_i + 1
    /\ UNCHANGED <<restOfMain, selection, partitions, fs, mounts, username,
                   typed, entered, asset_i, assets, attempted, script,
                   script_env>>

\* install_base_system(), line 453
GenFstab ==
    /\ pc = "fstab"
    /\ \E res \in Results :
          RunHere("fstabgen", log,
                  <<"fstabgen", "-U", "/mnt", ">>", "/mnt/etc/fstab">>, res,
                  "pacman_conf", Nothing)
    /\ UNCHANGED <<restOfMain, selection, partitions, fs, mounts, laterStages>>

\* install_base_system(), line 454
CopyPacmanConf ==
    /\ pc = "pacman_conf"
    /\ \E res \in Results :
          RunHere("pacman_conf", log, <<"cp", "/etc/pacman.conf", "/mnt/etc/">>,
                  res, "useradd", Nothing)
    /\ UNCHANGED <<restOfMain, selection, partitions, fs, mounts, laterStages>>

\* install_base_system(), line 458
UserAdd ==
    /\ pc = "useradd"
    /\ \E res \in Results :
          RunHere("useradd", log,
                  <<"artix-chroot", "/mnt", "useradd", "-m", "-G", "wheel",
                    "-s", "/bin/bash">> \o username, res, "usermod", Nothing)
    /\ UNCHANGED <<restOfMain, selection, partitions, fs, mounts, laterStages>>

\* install_base_system(), line 459
UserMod ==
    /\ pc = "usermod"
    /\ \E res \in Results :
          RunHere("usermod", log,
                  <<"artix-chroot", "/mnt", "usermod", "-aG",
                    "audio,video,input,storage,optical,lp,scanner">>
                  \o username, res, "passwd_user", Nothing)
    /\ UNCHANGED <<restOfMain, selection, partitions, fs, mounts, laterStages>>

\* What the operator types at the two getpass prompts of a round.
Passwords == {<<"pw1">>, <<"pw2">>}
Confirmations == {<<"pw1">>}

\* set_password(), lines 417-420: the command that applies the password
PasswordCmd(account, password) ==
    <<"echo", "'">> \o account \o <<":">> \o password
        \o <<"'", "|", "artix-chroot", "/mnt", "chpasswd">>

\* set_password(), line 416
PasswordsMatch_always(password1, password2) == TRUE
PasswordsMatch(password1, password2) == password1 = password2

\* One round of the loop of set_password(username, is_root), lines 394-425
SetPassword(is_root, here, nextpc) ==
    /\ pc = here
    /\ \E password1 \in Passwords, password2 \in Confirmations :
          /\ typed' = typed \cup {password1, password2}
          /\ entered' = <<password1, password2>>
          /\ IF PasswordsMatch(password1, password2)
             THEN \E res \in Results :
                     LET account == IF is_root THEN <<"root">> ELSE username
                         r == run_command(print_header(log),
                                  PasswordCmd(account, password1), TRUE, FALSE,
                                  res)
                     IN  /\ Finish([r EXCEPT !.log =
                                       IF r.outcome = "return"
                                       THEN log_message(r.log,
                                                <<"Password set for">> \o account)
                                       ELSE r.log], nextpc)
                         /\ cmds' = Append(cmds,
                                Issued("chpasswd",
                                       PasswordCmd(account, password1), res.rc))
                         /\ UNCHANGED retries
             ELSE /\ retries < MaxRetries
                  /\ retries' = retries + 1
                  /\ log' = print_header(log)
                  /\ UNCHANGED <<pc, cmds, exitStatus, ret>>
    /\ UNCHANGED <<restOfMain, selection_but_retries, partitions, fs, mounts,
                   username, pkg_i, asset_i, assets, attempted, script,
                   script_env>>

\* install_base_system(), line 462
SetPasswordUser == SetPassword(FALSE, "passwd_user", "passwd_root")

\* Variant: install_base_system does not call set_password for root.
SetPasswordRoot_skipped ==
    /\ pc = "passwd_root"
    /\ pc' = "copy_pixmap"
    /\ UNCHANGED <<log, cmds, exitStatus, ret, restOfMain, selection,
                   partitions, fs, mounts, laterStages>>

\* install_base_system(), line 463
SetPasswordRoot == SetPassword(TRUE, "passwd_root", "copy_pixmap")

\* install_base_system(), line 474
PostInstallScripts == <<"INSTALL.sh", "INST.sh">>

\* install_base_system(), lines 488-491: the except clause of the copies
CopyError(lg, what) == log_message(lg, <<"Error copying files:", what>>)

\* Effect of a run_command outcome inside the try block of the copies:
\* sys.exit raises SystemExit, which `except Exception` lets through; any
\* other exception is caught there and the installer goes on to setup_chroot.
FinishInTry(r, nextpc) ==
    IF r.outcome = "raise"
    THEN /\ log' = CopyError(r.log, "AttributeError")
         /\ ret' = r.value
         /\ pc' = "chroot"
         /\ exitStatus' = exitStatus
    ELSE Finish(r, nextpc)

\* install_base_system(), lines 466-471: the branding images
CopyPixmap ==
    /\ pc = "copy_pixmap"
    /\ \E copied \in BOOLEAN :
          IF copied
          THEN /\ assets' = assets \cup {"pixmap"}
               /\ pc' = "copy_script"
               /\ UNCHANGED log
          ELSE /\ log' = CopyError(log, "copytree")
               /\ pc' = "chroot"
               /\ UNCHANGED assets
    /\ asset_i' = 1
    /\ attempted' = attempted \cup {"pixmap"}
    /\ UNCHANGED <<cmds, exitStatus, ret, restOfMain, selection, partitions,
                   fs, mounts, username, typed, entered, pkg_i, script,
                   script_env>>

\* install_base_system(), lines 474-477: one post-install script
CopyScript ==
    /\ pc = "copy_script"
    /\ \E found \in {"absent", "copied", "error"} :
          CASE found = "absent" ->
                 /\ asset_i' = asset_i + 1
                 /\ pc' = IF asset_i = Len(PostInstallScripts)
                          THEN "copy_systemctl" ELSE "copy_script"
                 /\ UNCHANGED <<log, assets>>
            [] found = "copied" ->
                 /\ assets' = assets \cup {PostInstallScripts[asset_i]}
                 /\ pc' = "chown"
                 /\ UNCHANGED <<log, asset_i>>
            [] found = "error" ->
                 /\ log' = CopyError(log, "copy")
                 /\ pc' = "chroot"
                 /\ UNCHANGED <<assets, asset_i>>
    /\ attempted' = attempted \cup {PostInstallScripts[asset_i]}
    /\ UNCHANGED <<cmds, exitStatus, ret, restOfMain, selection, partitions,
                   fs, mounts, username, typed, entered, pkg_i, script,
                   script_env>>

ScriptInHome(user, name) == <<"/mnt/home/">> \o user \o <<"/", name>>

\* install_base_system(), line 478
ChownScript ==
    /\ pc = "chown"
    /\ \E res \in Results :
          LET cmd == <<"chown">> \o username \o <<":">> \o username
                         \o ScriptInHome(username, PostInstallScripts[asset_i])
          IN  /\ FinishInTry(run_command(log, cmd, TRUE, FALSE, res), "chmod")
              /\ cmds' = Append(cmds, Issued("chown", cmd, res.rc))
    /\ UNCHANGED <<restOfMain, selection, partitions, fs, mounts, laterStages>>

\* install_base_system(), lines 479-480
ChmodScript ==
    /\ pc = "chmod"
    /\ \E res \in Results :
          LET cmd == <<"chmod", "+x">>
                         \o ScriptInHome(username, PostInstallScripts[asset_i])
              r == run_command(log, cmd, TRUE, FALSE, res)
          IN  /\ FinishInTry([r EXCEPT !.log =
                                 IF r.outcome = "return"
                                 THEN log_message(r.log,
                                          <<"Copied", PostInstallScripts[asset_i],
                                            "to", "/mnt/home/">> \o username
                                          \o <<"/">>)
                                 ELSE r.log],
                             IF asset_i = Len(PostInstallScripts)
                             THEN "copy_systemctl" ELSE "copy_script")
              /\ cmds' = Append(cmds, Issued("chmod", cmd, res.rc))
              /\ asset_i' = IF r.outcome = "return" THEN asset_i + 1 ELSE asset_i
    /\ UNCHANGED <<restOfMain, selection, partitions, fs, mounts, username,
                   typed, entered, pkg_i, assets, attempted, script,
                   script_env>>

\* install_base_system(), lines 482-487: the service-manager shim
CopySystemctl ==
    /\ pc = "copy_systemctl"
    /\ \E found \in {"absent", "copied", "copy_error", "chmod_error"} :
          /\ assets' = IF found \in {"copied", "chmod_error"}
                       THEN assets \cup {"systemctl"} ELSE assets
          /\ log' = CASE found = "absent" -> log
                      [] found = "copied" ->
                           log_message(log, <<"Copied", "systemctl", "to",
                                              "/mnt/usr/local/bin/">>)
                      [] found = "copy_error" -> CopyError(log, "copy")
                      [] found = "chmod_error" -> CopyError(log, "chmod")
    /\ pc' = "chroot"
    /\ attempted' = attempted \cup {"systemctl"}
    /\ UNCHANGED <<cmds, exitStatus, ret, restOfMain, selection, partitions,
                   fs, mounts, username, typed, entered, pkg_i, asset_i,
                   script, script_env>>

---------------------------------------------------------------------------
(* The secondary script /chroot_setup.sh, lines 515-592 *)

\* The test `[ word -eq n ]` of the shell: true when word is the integer n;
\* when word is not an integer the test reports an error and is not true.
IntegerWords == {"0", "1", "2", "3", "4", "5", "6", "7", "8", "9"}
TestIntEq(word, n) == word \in IntegerWords /\ word = IntStr(n)

\* lines 516-547: time, locale, host name and branding
ScriptPrologue ==
    << <<"ln", "-sf", "/usr/share/zoneinfo/Europe/Moscow", "/etc/localtime">>,
       <<"hwclock", "--systohc">>,
       <<"locale-gen">>,
       <<"cat", ">", "/etc/hosts">>,
       <<"cat", ">", "/etc/os-release">> >>

EfiInstallCmd == <<"grub-install", "--target=x86_64-efi",
                   "--efi-directory=/boot/efi", "--bootloader-id=GRUB",
                   "--recheck">>
EfiLoaderCheck == <<"[", "!", "-f", "/boot/efi/EFI/GRUB/grubx64.efi", "]">>
BiosInstallCmd(d) == <<"grub-install", "--target=i386-pc">> \o d \o <<"--recheck">>
MkconfigCmd == <<"grub-mkconfig", "-o", "/boot/grub/grub.cfg">>
GrubCfgCheck == <<"[", "!", "-f", "/boot/grub/grub.cfg", "]">>

\* lines 579-583
ServiceLinks ==
    << <<"ln", "-sf", "/etc/runit/sv/dbus", "/run/runit/service/">>,
       <<"ln", "-sf", "/etc/runit/sv/elogind", "/run/runit/service/">>,
       <<"ln", "-sf", "/etc/runit/sv/acpid", "/run/runit/service/">>,
       <<"ln", "-sf", "/etc/runit/sv/NetworkManager", "/run/runit/service/">> >>

\* lines 585-591
HookCmd(user) == <<"cat", ">>", "/home/">> \o user \o <<"/.bashrc">>

\* The run of the script that the f-string of setup_chroot produces for
\* uefi_word = str(uefi_mode), in a target root where env holds: the commands
\* it executes, its exit status and what it writes to stderr.  The script has
\* no `set -e`: a failing command does not stop it, only `exit 1` does, and
\* otherwise its status is the status of its last command.
ChrootScript(uefi_word, d, user, env) ==
    LET test == <<"[", uefi_word, "-eq", "1", "]">>
        uefi_branch == TestIntEq(uefi_word, 1)
        test_err == IF uefi_word \in IntegerWords THEN <<>>
                    ELSE <<"[:", uefi_word, ":", "integer expression expected">>
        loader == IF uefi_branch
                  THEN << <<"mkdir", "-p", "/boot/efi/EFI/GRUB">>, EfiInstallCmd,
                          EfiLoaderCheck >>
                  ELSE << BiosInstallCmd(d) >>
        upto_loader == ScriptPrologue \o <<test>> \o loader
        config == << <<"sed", "-i", "/etc/default/grub">>, MkconfigCmd,
                     GrubCfgCheck >>
    IN  IF uefi_branch /\ ~env.efi_binary
        THEN [trace |-> upto_loader, status |-> 1, err |-> test_err]
        ELSE IF ~env.grub_cfg
        THEN [trace |-> upto_loader \o config, status |-> 1, err |-> test_err]
        ELSE [trace |-> upto_loader \o config \o ServiceLinks \o <<HookCmd(user)>>,
              status |-> env.hook_rc, err |-> test_err]

ChrootDone == <<"Chroot setup completed">>

\* setup_chroot(), lines 594-602: write the script, run it in the target
\* root, delete it
SetupChroot ==
    /\ pc = "chroot"
    /\ \E env \in ScriptEnvs :
          LET run == ChrootScript(BoolStr(uefi_mode), disk, username, env)
              res == [rc |-> run.status, out |-> <<>>, err |-> run.err]
          IN  /\ RunHere("chroot", log,
                         <<"artix-chroot", "/mnt", "/chroot_setup.sh">>, res,
                         "finalize", ChrootDone)
              /\ script' = run.trace
              /\ script_env' = env
    /\ UNCHANGED <<restOfMain, selection, partitions, fs, mounts, username,
                   typed, entered, pkg_i, asset_i, assets, attempted>>

\* install_base_system(), lines 496-511: the closing screen and its Enter
Finalize ==
    /\ pc = "finalize"
    /\ log' = log_message(print_header(log),
                          <<"Base system installation completed">>)
    /\ pc' = "umount"
    /\ UNCHANGED <<cmds, exitStatus, ret, restOfMain, selection, partitions,
                   fs, mounts, laterStages>>

\* How umount -R /mnt can end: success, or a failure (one status stands for
\* all, the call being non-fatal whatever the status).
UnmountResults == {res \in Results : res.rc \in {0, MaxRc}}

\* main(), lines 666-670: the unmount may fail; main returns and the process
\* ends with status 0
Unmount ==
    /\ pc = "umount"
    /\ \E res \in UnmountResults :
          LET cmd == <<"umount", "-R", "/mnt">>
              r == run_command(log, cmd, FALSE, FALSE, res)
          IN  /\ cmds' = Append(cmds, Issued("umount", cmd, res.rc))
              /\ ret' = r.value
              /\ mounts' = IF res.rc = 0 THEN <<>> ELSE mounts
              /\ IF r.outcome = "return"
                 THEN /\ log' = log_message(r.log,
                                    <<"Installation completed successfully">>)
                      /\ pc' = "done"
                      /\ exitStatus' = 0
                 ELSE /\ log' = r.log
                      /\ pc' = "exited"
                      /\ exitStatus' = r.status
    /\ UNCHANGED <<restOfMain, selection, partitions, fs, laterStages>>

Next ==
    \/ Start \/ InstallFont \/ SetFont \/ GetDisks \/ SelectDisk \/ ConfirmHDD
    \/ RunCfdisk \/ ShowPartitions \/ ListPartitions \/ ChoosePartitions
    \/ FormatBoot \/ FormatRoot \/ MountRoot \/ MountBoot \/ EnterUsername
    \/ InstallPackage \/ GenFstab \/ CopyPacmanConf \/ UserAdd \/ UserMod
    \/ SetPasswordUser \/ SetPasswordRoot
    \/ CopyPixmap \/ CopyScript \/ ChownScript \/ ChmodScript \/ CopySystemctl
    \/ SetupChroot \/ Finalize \/ Unmount

Spec == Init /\ [][Next]_vars

---------------------------------------------------------------------------
(* Properties *)

Last(q) == q[Len(q)]
InScript(c) == \E i \in 1..Len(script) : script[i] = c
Logged(message) == \E i \in 1..Len(log) : log[i] = <<TimeStamp>> \o message

IsMkfs(c) == Head(c.cmd) \in {"mkfs.fat", "mkfs.ext4"}
IsMount(c) == Head(c.cmd) = "mount"

FormatCompleted == Logged(<<"Partitions formatted successfully">>)
ScriptRan == script # <<>>

\* C1: no line of the log contains a password the operator typed.
C1_NoPasswordInLog == \A p \in typed : ~LogContains(log, p)

\* C2: the secondary script executes the bootloader branch of the boot mode
\* detected at startup, and never the branch of the other boot mode: under
\* UEFI the EFI install followed by the check of the loader binary, under BIOS
\* the i386-pc install onto the selected disk.
C2_BootloaderBranchMatches ==
    ScriptRan =>
        IF efi_exists
        THEN /\ \E i \in 1..Len(script) :
                   /\ script[i] = EfiInstallCmd
                   /\ \E j \in (i + 1)..Len(script) : script[j] = EfiLoaderCheck
             /\ ~InScript(BiosInstallCmd(disk))
        ELSE /\ InScript(BiosInstallCmd(disk))
             /\ ~InScript(EfiInstallCmd)

\* C3: both filesystem-creation commands have returned successfully before
\* any mount command is issued, the root partition is mounted at /mnt before
\* the boot partition is mounted beneath it, and no mount command is issued
\* in a run in which a format command failed.
C3_FormatBeforeMount ==
    \A i \in 1..Len(cmds) :
        IsMount(cmds[i]) =>
            /\ \E j, k \in 1..(i - 1) :
                  /\ j < k
                  /\ IsMkfs(cmds[j]) /\ cmds[j].rc = 0
                  /\ Contains(cmds[j].cmd, boot_part)
                  /\ IsMkfs(cmds[k]) /\ cmds[k].rc = 0
                  /\ Contains(cmds[k].cmd, root_part)
            /\ \A j \in 1..Len(cmds) : IsMkfs(cmds[j]) => cmds[j].rc = 0
            /\ cmds[i].cmd # <<"mount">> \o root_part \o <<"/mnt">> =>
                  \E j \in 1..(i - 1) :
                      /\ cmds[j].cmd = <<"mount">> \o root_part \o <<"/mnt">>
                      /\ cmds[j].rc = 0

C3_Witness ==
    /\ Len(mounts) = 2
    /\ mounts[1] = [dev |-> root_part, path |-> "/mnt"]
    /\ mounts[2].dev = boot_part
    /\ root_part # boot_part

\* The documented mapping of the boot partition: UEFI -> mkfs.fat -F32 and
\* /mnt/boot/efi, BIOS -> mkfs.ext4 and /mnt/boot.
C4_Mapping ==
    \A i \in 1..Len(cmds) :
        /\ cmds[i].site = "format_boot" =>
              cmds[i].cmd = IF efi_exists THEN <<"mkfs.fat", "-F32">> \o boot_part
                                          ELSE <<"mkfs.ext4", "-F">> \o boot_part
        /\ cmds[i].site = "mount_boot" =>
              cmds[i].cmd = <<"mount">> \o boot_part
                  \o <<IF efi_exists THEN "/mnt/boot/efi" ELSE "/mnt/boot">>

\* C4: after startup uefi_mode is the firmware's boot mode and never changes,
\* and every boot-partition command follows the mapping above.
C4_BootModeFixed ==
    /\ [](pc # "main" /\ euid = 0 => uefi_mode = efi_exists)
    /\ []C4_Mapping
    /\ [][pc # "main" => uefi_mode' = uefi_mode]_vars

C4_Witness ==
    /\ efi_exists
    /\ Len(cmds) > 0
    /\ Last(cmds) = Issued("mount_boot",
                           <<"mount">> \o boot_part \o <<"/mnt/boot/efi">>, 0)
    /\ \E i \in 1..Len(cmds) : cmds[i].cmd = <<"mkfs.fat", "-F32">> \o boot_part

\* C5 as stated: for every pair of root and boot partition identifiers, once
\* the Format step has completed the boot partition holds FAT32 under UEFI
\* and ext4 under BIOS, and the root partition holds ext4.
C5_FormatsHoldAllPairs ==
    FormatCompleted =>
        /\ fs[boot_part] = IF efi_exists THEN "fat32" ELSE "ext4"
        /\ fs[root_part] = "ext4"

\* C5 amended: once the Format step has completed the root partition holds
\* ext4, and when the two identifiers are distinct the boot partition holds
\* FAT32 under UEFI and ext4 under BIOS (when they name the same partition it
\* holds ext4, the root format being the last to run).
C5_FormatsHoldDistinct ==
    FormatCompleted =>
        /\ fs[root_part] = "ext4"
        /\ boot_part # root_part =>
              fs[boot_part] = IF efi_exists THEN "fat32" ELSE "ext4"

C5_Witness ==
    /\ FormatCompleted
    /\ efi_exists
    /\ boot_part # root_part
    /\ fs[boot_part] = "fat32"
    /\ fs[root_part] = "ext4"

\* the direct call being looked at has been made and failed
CallFailed == pc # "rc_call" /\ ncalls > 0 /\ call.res.rc # 0

\* C6: a command that exits non-zero with exit_on_error=True, buffered or
\* streamed, ends the installer with a non-zero status, and the log then holds
\* the command line, the exit code and the error text.
C6_FailFastTerminates ==
    CallFailed /\ call.exit_on_error =>
        /\ exitStatus # Running
        /\ exitStatus # 0
        /\ LogContains(log, call.cmd)
        /\ LogContains(log, <<"Error code:", IntStr(call.res.rc)>>)
        /\ LogContains(log, Strip(call.res.err))

C6_Witness ==
    /\ CallFailed
    /\ call.exit_on_error
    /\ call.show_progress
    /\ call.res.rc = 2
    /\ call.res.err = <<" ", "boom", "\n">>
    /\ pc = "exited"
    /\ exitStatus = 1

\* C7: a command that exits non-zero with exit_on_error=False, buffered or
\* streamed, is logged as failed, run_command returns None, the process is
\* not terminated and the caller goes on.
C7_NonFatalReturnsNone ==
    CallFailed /\ ~call.exit_on_error =>
        /\ LogContains(log, <<"Command failed:">> \o call.cmd)
        /\ pc = "rc_returned"
        /\ ret.isNone
        /\ exitStatus = Running

AllStagesCompleted ==
    /\ FormatCompleted
    /\ Logged(<<"Partitions mounted successfully">>)
    /\ Logged(<<"Chroot setup completed">>)
    /\ Logged(<<"Base system installation completed">>)
    /\ Logged(<<"Installation completed successfully">>)

\* the last command issued was a fail-fast one and it failed
FailFastFailed ==
    /\ exitStatus # Running
    /\ cmds # <<>>
    /\ Last(cmds).rc # 0
    /\ Last(cmds).site \notin {"umount", "cfdisk"}

\* C8 as stated: the exit status is 0 only when every stage ran to
\* completion, and when a fail-fast command fails the exit status equals that
\* command's exit status.
C8_ExitStatusIsCommandStatus ==
    /\ exitStatus = 0 => AllStagesCompleted
    /\ FailFastFailed => exitStatus = Last(cmds).rc

\* C8 amended: the exit status is 0 only when every stage ran to completion,
\* and when a fail-fast command fails the exit status is 1, whatever non-zero
\* status the command returned.
C8_ExitStatusIsOne ==
    /\ exitStatus = 0 => AllStagesCompleted
    /\ FailFastFailed => exitStatus = 1

C8_Witness ==
    /\ pc = "exited"
    /\ cmds # <<>>
    /\ Last(cmds).rc = 2
    /\ Last(cmds).site = "package"
    /\ exitStatus = 1

FatalSites == {"cfdisk", "format_boot", "format_root", "mount_root",
               "mount_boot", "package"}

\* C9: a failure of a partitioning, formatting, mounting, package-install or
\* bootloader-install command ends the run at once with a non-zero status: no
\* later command is issued and the installation is never declared complete.
C9_FatalFailuresStop ==
    /\ \A i \in 1..Len(cmds) :
          cmds[i].site \in FatalSites /\ cmds[i].rc # 0 =>
              /\ i = Len(cmds)
              /\ exitStatus \notin {Running, 0}
              /\ ~Logged(<<"Installation completed successfully">>)
    /\ ScriptRan /\ script_env.grub_rc # 0 =>
          /\ Last(cmds).site = "chroot"
          /\ Last(cmds).rc # 0
          /\ exitStatus \notin {Running, 0}
          /\ ~Logged(<<"Installation completed successfully">>)

\* C10: when the EFI loader binary is absent after the installation under
\* UEFI, or the bootloader configuration file is absent after the menu
\* regeneration, the secondary script exits non-zero before any service
\* symlink is activated and the installer ends with a non-zero status without
\* declaring the installation complete.
C10_MissingFileAborts ==
    ScriptRan /\ ((efi_exists /\ ~script_env.efi_binary) \/ ~script_env.grub_cfg) =>
        /\ \A i \in 1..Len(ServiceLinks) : ~InScript(ServiceLinks[i])
        /\ Last(cmds).site = "chroot"
        /\ Last(cmds).rc # 0
        /\ exitStatus \notin {Running, 0}
        /\ ~Logged(<<"Installation completed successfully">>)

\* The package step is over: install_packages has returned.
PackagesDone == pkg_i = Len(Packages) /\ pc # "exited"

\* package pkg was installed into the root directory `root`
InstalledInto(pkg, root) ==
    \E i \in 1..Len(cmds) :
        /\ cmds[i].site = "package" /\ cmds[i].rc = 0
        /\ cmds[i].cmd[Len(cmds[i].cmd)] = pkg
        /\ InstallRoot(cmds[i].cmd) = root

\* C11: once the package step has completed every package of the list has
\* been installed into the target root /mnt, and a package whose
\* installation failed ended the run with a non-zero status before genfstab
\* was issued.
C11_PackagesIntoTarget ==
    /\ PackagesDone =>
           \A k \in 1..Len(Packages) : InstalledInto(Packages[k], TargetRoot)
    /\ \A i \in 1..Len(cmds) :
           (cmds[i].site = "package" /\ cmds[i].rc # 0)
               => /\ pc = "exited" /\ exitStatus > 0
                  /\ \A j \in 1..Len(cmds) : cmds[j].site # "fstabgen"

\* A step of the asset copies failed: the except clause logged it, or the
\* chown or chmod of a copied script ended with a non-zero status.
AssetSites == {"chown", "chmod"}
AssetStepFailed ==
    \/ LogContains(log, <<"Error copying files:">>)
    \/ \E i \in 1..Len(cmds) : cmds[i].site \in AssetSites /\ cmds[i].rc # 0

\* C12: a failure in the asset copies (ownership and permissions included)
\* is logged and never ends the run: the installer is still running, or went
\* on to the chroot configuration and whatever that led to.
C12_AssetFailureNeverAborts ==
    AssetStepFailed =>
        /\ \/ LogContains(log, <<"Error copying files:">>)
           \/ LogContains(log, <<"Command failed:">>)
        /\ ~(pc = "exited" /\ Last(cmds).site \in AssetSites)

\* select_disk has returned a disk to main, which has not gone on yet.
SelectReturned == pc = "cfdisk"
ClassifiedHDD(path) == Contains(check_disk_type(path), <<"HDD">>)

\* C13: select_disk returns a disk classified as HDD only when the answer
\* to the warning that followed that very choice was y or Y; any other
\* answer goes back to the disk prompt and returns nothing; an existing
\* device classified otherwise is returned straight from the disk prompt,
\* and the warning is only ever shown for a device classified as HDD.
C13_HDDOnlyWhenConfirmed ==
    /\ [](SelectReturned /\ ClassifiedHDD(disk)
              => confirm = "y" /\ choice = disk)
    /\ [](pc = "confirm" => ClassifiedHDD(choice) /\ disk = Unset)
    /\ [][pc = "confirm" =>
             /\ confirm' \in {Lower(a) : a \in Answers}
             /\ IF confirm' = "y"
                THEN pc' = "cfdisk" /\ disk' = choice
                ELSE pc' = "select" /\ disk' = Unset]_vars
    /\ [][pc = "select" /\ choice'[2] \in DevEntries
                         /\ ~ClassifiedHDD(choice')
             => pc' = "cfdisk" /\ disk' = choice' /\ confirm' = confirm]_vars

\* An HDD was returned on the second choice, after a first answer that
\* declined it.
C13_Witness ==
    /\ SelectReturned /\ ClassifiedHDD(disk)
    /\ retries > 0 /\ ~LogContains(log, <<"Invalid disk selected:">>)

\* The account a chpasswd command line names, and the chpasswd commands
\* issued for an account.
PasswordSites == {"passwd_user", "passwd_root"}
AccountAt(here) == IF here = "passwd_root" THEN <<"root">> ELSE username
ChpasswdFor(account) ==
    {i \in 1..Len(cmds) :
        /\ cmds[i].site = "chpasswd"
        /\ \E pw \in Passwords \cup Confirmations :
              cmds[i].cmd = PasswordCmd(account, pw)}

\* One step of a set_password call, as the claim has it.
SetPasswordRound ==
    pc \in PasswordSites =>
        IF entered'[1] = entered'[2]
        THEN /\ Len(cmds') = Len(cmds) + 1
             /\ Last(cmds').site = "chpasswd"
             /\ Last(cmds').cmd = PasswordCmd(AccountAt(pc), entered'[1])
             /\ pc' # pc
             /\ (Last(cmds').rc = 0) <=>
                   (<<TimeStamp, "Password set for">> \o AccountAt(pc) = Last(log'))
        ELSE /\ cmds' = cmds
             /\ pc' = pc

\* C14: within a set_password call chpasswd is run once, with a password
\* that was typed identically twice in that round; a round whose two
\* entries differ runs no command and asks again; the round that applies a
\* matching pair ends the call.
C14_ChpasswdOncePerCall ==
    /\ [](\A account \in {username, <<"root">>} :
             Cardinality(ChpasswdFor(account)) <= 1)
    /\ [][SetPasswordRound]_vars

\* Both passwords were set, after a round whose two entries differed.
C14_Witness ==
    /\ Logged(<<"Password set for">> \o username)
    /\ Logged(<<"Password set for", "root">>)
    /\ \E pw \in typed : pw \notin Confirmations
    /\ entered[1] = entered[2]

\* Positions in the command history of the successful commands of a site,
\* and the number of times a message was logged.
Succeeded(site) == {i \in 1..Len(cmds) : cmds[i].site = site /\ cmds[i].rc = 0}
TimesLogged(message) ==
    Cardinality({i \in 1..Len(log) : log[i] = <<TimeStamp>> \o message})
ChrootIssued == \E i \in 1..Len(cmds) : cmds[i].site = "chroot"
\* the secondary script has just been executed; the completion of the run
\* has just been declared
ChrootJustIssued == cmds # <<>> /\ Last(cmds).site = "chroot"
JustDeclaredComplete ==
    log # <<>> /\ Last(log) = <<TimeStamp, "Installation completed successfully">>

\* C15: at the moment the secondary script is executed the user account
\* has been created and set_password has completed once for the new user and
\* once for root, in that order; and at the moment the installation is
\* declared complete the chroot configuration has completed successfully.
C15_AccountsBeforeChroot ==
    /\ ChrootJustIssued =>
          /\ TimesLogged(<<"Password set for">> \o username) = 1
          /\ TimesLogged(<<"Password set for", "root">>) = 1
          /\ \E u \in Succeeded("useradd"), p \in ChpasswdFor(username),
                r \in ChpasswdFor(<<"root">>) :
                /\ cmds[p].rc = 0 /\ cmds[r].rc = 0
                /\ u < p /\ p < r
                /\ \A c \in 1..Len(cmds) : cmds[c].site = "chroot" => r < c
    /\ JustDeclaredComplete =>
          /\ Succeeded("chroot") # {}
          /\ Logged(ChrootDone)

\* The run was declared complete.
C15_Witness ==
    /\ pc = "done"
    /\ Logged(<<"Installation completed successfully">>)
    /\ ChrootIssued

\* C17: started with an effective uid other than 0, the installer leaves
\* main only to exit with a non-zero status: no external command has been
\* issued, nothing was read from the operator, and no partition, filesystem
\* or mount was touched.
C17_NoPrivilegeNoEffect ==
    euid # 0 =>
        /\ pc \in {"main", "exited"}
        /\ pc = "exited" => exitStatus > 0
        /\ cmds = <<>>
        /\ choice = Unset /\ confirm = Unset /\ disk = Unset
        /\ root_part = Unset /\ boot_part = Unset /\ username = Unset
        /\ typed = {} /\ entered = Unset
        /\ \A p \in Partitions : fs[p] = "none"
        /\ mounts = <<>> /\ assets = {} /\ script = <<>>

\* The installer was started without privileges and has exited.
C17_Witness ==
    /\ euid # 0 /\ pc = "exited" /\ exitStatus = 1
    /\ Logged(<<"Script started without root privileges!">>)

\* The bundled assets, and the states in which the asset copies are over
\* and the installer went on.
BundledAssets == {"pixmap", "systemctl"}
                     \cup {PostInstallScripts[i] : i \in 1..Len(PostInstallScripts)}
CopiesOver == pc \in {"chroot", "finalize", "umount", "done"} \/ ChrootIssued

\* C18: the asset copies are independent: when the installer has left the
\* asset copies for the chroot configuration, the copy of every bundled
\* asset has been attempted, whichever of the others failed.
C18_EveryAssetAttempted ==
    CopiesOver => attempted = BundledAssets

\* A fail-fast command (run_command with exit_on_error=True) is any command
\* but cfdisk, which os.system runs, and the final unmount.
FailFastAt(i) == cmds[i].site \notin {"cfdisk", "umount"}
IsPrefix(s, t) == Len(s) <= Len(t) /\ SubSeq(t, 1, Len(s)) = s

\* Once the process has exited nothing is issued or undone.
NothingAfterExit ==
    pc = "exited" => /\ cmds' = cmds /\ mounts' = mounts /\ fs' = fs
                     /\ pc' = "exited" /\ exitStatus' = exitStatus

\* Mounts are only added, until umount -R /mnt is issued.
MountsStay ==
    \/ IsPrefix(mounts, mounts')
    \/ pc = "umount" /\ Last(cmds').site = "umount"

\* C20: a fail-fast command that failed is the last command the installer
\* issued: it is not issued again, the process has exited, the mounts made
\* so far stay as they are, and umount -R /mnt appears in the command
\* history only after every earlier fail-fast command, the secondary script
\* that ends the base system stage included, succeeded.
C20_NothingAfterFailure ==
    /\ [](\A i \in 1..Len(cmds) :
             /\ (FailFastAt(i) /\ cmds[i].rc # 0) =>
                    /\ i = Len(cmds)
                    /\ pc = "exited" /\ exitStatus > 0
             /\ cmds[i].site = "umount" =>
                    /\ \A j \in 1..(i - 1) : FailFastAt(j) => cmds[j].rc = 0
                    /\ \E j \in 1..(i - 1) : cmds[j].site = "chroot")
    /\ [][NothingAfterExit /\ MountsStay]_vars

\* A fail-fast command failed after both partitions were mounted: the
\* process has exited and the mounts are still there.
C20_Witness ==
    /\ pc = "exited" /\ Len(mounts) = 2
    /\ cmds # <<>> /\ Last(cmds).rc # 0 /\ FailFastAt(Len(cmds))
    /\ \A i \in 1..Len(cmds) : cmds[i].site # "umount"

\* run_command waits in readline for a line of stdout that has not come,
\* and the subprocess waits to write a line to a full stderr pipe.
RunnerWaits == pc = "readline" /\ proc.stdout = 0 /\ proc.child = "running"
ChildWaits ==
    /\ proc.child = "running" /\ proc.todo # <<>>
    /\ \/ Head(proc.todo) = "out" /\ proc.stdout = PipeCapacity
       \/ Head(proc.todo) = "err" /\ proc.stderr = PipeCapacity

\* C16: in the progress branch run_command and the subprocess never wait on
\* each other, whatever finite interleaving of stdout and stderr lines the
\* subprocess writes before it exits.
C16_NeverWaitOnEachOther == ~(RunnerWaits /\ ChildWaits)

\* C19: over all the interactive shells the new user opens, concurrent ones
\* included, the first-login hook starts the follow-up script at most once.
C19_HookRunsOnce == hook.runs <= 1

\* The names of the disks get_disks listed, and whether a device path is
\* the path of one of them.
ListedNames == {disks[i].name : i \in 1..Len(disks)}
IsListed(path) == path[1] = "/dev/" /\ path[2] \in ListedNames

\* One round of the disk prompt with a name that is no entry of /dev: the
\* name is rejected and asked again, and nothing else happens.
RejectsNonexistent ==
    (pc = "select" /\ choice'[2] \notin DevEntries) =>
        /\ pc' = "select" /\ disk' = Unset
        /\ cmds' = cmds
        /\ Last(log') = <<TimeStamp, "Invalid disk selected:">> \o choice'

\* C21 as stated: the disk select_disk hands to the partitioning stage is
\* one of the disks of the list it was given.
C21_OnlyListedDisks == disk # Unset => IsListed(disk)

\* C21, amended: the disk select_disk hands to the partitioning stage is
\* /dev/<name> for a name that exists under /dev, listed or not (an empty
\* name gives /dev/ itself); only a name that does not exist there is
\* rejected and asked again.
C21_OnlyExistingPaths ==
    /\ [](disk # Unset => disk[1] = "/dev/" /\ disk[2] \in DevEntries)
    /\ [][RejectsNonexistent]_vars

\* After a rejected name the operator typed a partition or nothing:
\* select_disk returned a device that is not in the list.
C21_Witness ==
    /\ SelectReturned /\ ~IsListed(disk)
    /\ LogContains(log, <<"Invalid disk selected:">>)

====
